---- MODULE Spec2Model ----
(***************************************************************************)
(* A model of devito's cross-iteration redundancies elimination pass       *)
(* (devito/passes/clusters/aliases.py: cire = extract, collect, choose,    *)
(* process, rebuild) and of the interval algebra it relies upon            *)
(* (devito/ir/support/space.py: Interval, NullInterval, IntervalGroup).    *)
(*                                                                         *)
(* Expressions are kept in analysed form: an operator shape plus the       *)
(* ordered array accesses, each access a function name and a LabeledVector *)
(* (a sequence of <dimension, offset> pairs).  An offset is an integer or  *)
(* an integer plus one symbolic term (such as x_m - x + 5), written        *)
(* [s |-> coefficient of the symbolic term, c |-> integer part].           *)
(***************************************************************************)
EXTENDS Integers, Sequences, FiniteSets, TLC

VARIABLES pc, exprs, col, chosen, out, trace, sp, ig

vars == <<pc, exprs, col, chosen, out, trace, sp, ig>>

-----------------------------------------------------------------------------
(* Generic helpers *)

MaxOf(S) == CHOOSE x \in S : \A y \in S : y <= x
MinOf(S) == CHOOSE x \in S : \A y \in S : x <= y
Range(q) == {q[k] : k \in 1..Len(q)}

RECURSIVE SumSeq(_)
SumSeq(q) == IF q = <<>> THEN 0 ELSE Head(q) + SumSeq(Tail(q))

RECURSIVE Flatten(_)
Flatten(qq) == IF qq = <<>> THEN <<>> ELSE Head(qq) \o Flatten(Tail(qq))

\* The elements of q, each kept at its first occurrence only
RECURSIVE filter_ordered(_)
filter_ordered(q) ==
    IF q = <<>> THEN <<>>
    ELSE LET r == filter_ordered(SelectSeq(Tail(q), LAMBDA x : x # Head(q)))
         IN  <<Head(q)>> \o r

\* Python's // 2 (floor) and the truncation of int(x / n)
FloorDiv2(x) == IF x >= 0 THEN x \div 2 ELSE -(((-x) + 1) \div 2)
TruncDiv(x, n) == IF x >= 0 THEN x \div n ELSE -((-x) \div n)

-----------------------------------------------------------------------------
(* Offsets and LabeledVectors *)

Num(k) == [s |-> 0, c |-> k]
Sym(k) == [s |-> 1, c |-> k]
IsNum(o) == o.s = 0
OSub(x, y) == [s |-> x.s - y.s, c |-> x.c - y.c]

\* sympy decides x < y only when x - y is a number; max()/min() of a vector
\* raise TypeError as soon as two of its entries cannot be compared
Comparable(v) == \A k \in 1..Len(v) : v[k].s = v[1].s
VMax(v) == MaxOf({v[k].c : k \in 1..Len(v)})
VMin(v) == MinOf({v[k].c : k \in 1..Len(v)})

LV(d, o) == <<[d |-> d, o |-> o]>>
labels(lv) == [k \in 1..Len(lv) |-> lv[k].d]
fromlabel(lv, d, dflt) ==
    IF \E k \in 1..Len(lv) : lv[k].d = d
    THEN lv[CHOOSE k \in 1..Len(lv) : lv[k].d = d].o
    ELSE dflt

\* LabeledVector.transpose: one <label, vector> pair per label, labels in
\* first-seen order, each vector in the order of the input vectors
transpose(vectors) ==
    LET flat == Flatten(vectors)
        ds   == filter_ordered(labels(flat))
        col0(d) == LET es == SelectSeq(flat, LAMBDA e : e.d = d)
                   IN  [k \in 1..Len(es) |-> es[k].o]
    IN  [k \in 1..Len(ds) |-> [d |-> ds[k], v |-> col0(ds[k])]]

-----------------------------------------------------------------------------
(* Expressions (Eq's) and the inputs of the pass *)

Acc(f, d, o) == [f |-> f, off |-> LV(d, o)]
Eqn(lhs, kind, op, acc, cost, tinv) ==
    [lhs |-> lhs, kind |-> kind, irr |-> FALSE, op |-> op, acc |-> acc,
     cost |-> cost, tinv |-> tinv]
Rhs(e) == [op |-> e.op, acc |-> e.acc]

\* sum(f._size_halo[d]): the total halo of function f along d
SizeHalo(f, d) == CASE f = "a" -> 2 [] f = "b" -> 2 [] f = "c" -> 2 [] OTHER -> 0

\* The expressions yreplace may hand over. 1..6 are the expressions of the
\* docstring of collect; the others vary offsets, cost and time-invariance;
\* the last one writes to a tensor, as the equations of the cluster do.
Catalogue ==
    << Eqn("r1", "scalar", "add", <<Acc("a","i",Num(1)),  Acc("b","i",Num(1))>>, 5, FALSE),
       Eqn("r2", "scalar", "add", <<Acc("a","i",Num(-1)), Acc("b","i",Num(-1))>>, 6, FALSE),
       Eqn("r3", "scalar", "add", <<Acc("a","i",Num(1)),  Acc("b","j",Num(1))>>, 50, TRUE),
       Eqn("r4", "scalar", "add", <<Acc("a","i",Num(0)),  Acc("c","i",Num(0))>>, 6, FALSE),
       Eqn("r5", "scalar", "sub", <<Acc("a","i",Num(2)),  Acc("b","i",Num(2))>>, 60, FALSE),
       Eqn("r6", "scalar", "add", <<Acc("a","i",Num(2)),  Acc("b","i",Num(0))>>, 6, FALSE),
       Eqn("r7", "scalar", "add", <<Acc("a","i",Num(0)),  Acc("b","i",Num(0))>>, 6, FALSE),
       Eqn("r8", "scalar", "add", <<Acc("a","i",Num(2)),  Acc("b","i",Num(2))>>, 4, TRUE),
       Eqn("r9", "scalar", "add", <<Acc("a","i",Num(1)),  Acc("c","i",Num(1))>>, 50, TRUE),
       Eqn("r10", "scalar", "add", <<Acc("a","i",Num(1)), Acc("b","i",Num(0))>>, 6, FALSE),
       Eqn("r11", "scalar", "add", <<Acc("a","i",Num(0)), Acc("b","i",Num(-1))>>, 6, FALSE),
       Eqn("r12", "scalar", "add", <<Acc("a","i",Num(0)), Acc("b","j",Sym(5))>>, 6, FALSE),
       Eqn("r13", "scalar", "sub", <<Acc("a","i",Num(2)), Acc("b","j",Num(2))>>, 6, FALSE),
       Eqn("u",  "indexed", "mul", <<Acc("c","i",Num(0))>>, 9, FALSE) >>

SpecOrder == <<1, 2, 3, 4, 5, 6>>
DocOrder  == <<1, 3, 4, 5, 6, 2>>

-----------------------------------------------------------------------------
(* analyze, Candidate and Group *)

\* analyze returns None for a write to a tensor, an increment, an expression
\* without Indexeds and an irregular access
IsCandidate(e) == e.kind = "scalar" /\ Len(e.acc) > 0 /\ ~e.irr
analyze(es) == SelectSeq(es, IsCandidate)

offsets(c) == [k \in 1..Len(c.acc) |-> c.acc[k].off]
CToffsets(c) == transpose(offsets(c))
dimensions(c) == {CToffsets(c)[k].d : k \in 1..Len(CToffsets(c))}

\* compare_ops: same operations over the same operands, the indices apart
compare_ops(x, y) ==
    /\ x.op = y.op
    /\ Len(x.acc) = Len(y.acc)
    /\ \A k \in 1..Len(x.acc) : x.acc[k].f = y.acc[k].f

\* Translated without the test on the offsets
TranslatedUnchecked(c, u) == TRUE

\* len(set(i - j)) == 1 for every pair of zip(c.Toffsets, u.Toffsets)
Translated(c, u) ==
    LET tc == CToffsets(c)
        tu == CToffsets(u)
    IN  \A k \in 1..Len(tc) :
           Cardinality({OSub(tc[k].v[n], tu[k].v[n]) : n \in 1..Len(tc[k].v)}) = 1

Absorbs(c, u) ==
    /\ dimensions(c) = dimensions(u)
    /\ compare_ops(Rhs(c), Rhs(u))
    /\ Translated(c, u)

\* The while loop of collect: the groups in creation order, each with the
\* key (the dimensions of its first Candidate) under which mapper files it
RECURSIVE MakeGroups(_)
MakeGroups(unseen) ==
    IF unseen = <<>> THEN <<>>
    ELSE LET c    == Head(unseen)
             rest == Tail(unseen)
             grp  == <<c>> \o SelectSeq(rest, LAMBDA u : Absorbs(c, u))
             left == SelectSeq(rest, LAMBDA u : ~Absorbs(c, u))
         IN  <<[dims |-> dimensions(c), group |-> grp]>> \o MakeGroups(left)

\* LastKey as the key of the Group made last
LastKeyOfLastGroup(gs) == gs[Len(gs)].dims

\* mapper.popitem(): the groups filed under the key inserted last
LastKey(gs) ==
    LET keys == filter_ordered([k \in 1..Len(gs) |-> gs[k].dims])
    IN  keys[Len(keys)]
Bucket(gs) ==
    LET b == SelectSeq(gs, LAMBDA g : g.dims = LastKey(gs))
    IN  [k \in 1..Len(b) |-> b[k].group]

\* Group.Toffsets: per access, the transposed offsets of all members
GToffsets(g) ==
    [k \in 1..Len(g[1].acc) |-> transpose([m \in 1..Len(g) |-> g[m].acc[k].off])]

\* The <access, dimension, vector> triples in the order of the two nested
\* loops "for i in group.Toffsets: for d, v in i"
GEntries(g) ==
    Flatten([k \in 1..Len(GToffsets(g)) |->
               [n \in 1..Len(GToffsets(g)[k]) |->
                  [k |-> k, d |-> GToffsets(g)[k][n].d, v |-> GToffsets(g)[k][n].v]]])

-----------------------------------------------------------------------------
(* Group._pivot_legal_shifts and Group._pivot_rotations *)

\* The <function, dimension, offset> triples of the pivot in the order of
\* "for i, ofs in zip(c.indexeds, c.offsets): for l in ofs.labels"
PivotEntries(c) ==
    Flatten([k \in 1..Len(c.acc) |->
               [n \in 1..Len(c.acc[k].off) |->
                  [f |-> c.acc[k].f, d |-> c.acc[k].off[n].d, o |-> c.acc[k].off[n].o]]])

\* The legal increment of an access that forgets its offset
LegalIncrementNoOffset(f, d, o) == SizeHalo(f, d)

\* sum(f._size_halo[d]) - ofs[l]
LegalIncrement(f, d, o) == SizeHalo(f, d) - o.c

\* ret is a sequence of [d, maxd, mini]; a label not yet in ret stands
\* for the default (-inf, inf). A symbolic offset (TypeError) resets to (0, 0).
RECURSIVE LegalShiftsFold(_, _)
LegalShiftsFold(es, ret) ==
    IF es = <<>> THEN ret
    ELSE LET x    == Head(es)
             seen == \E k \in 1..Len(ret) : ret[k].d = x.d
             pos  == CHOOSE k \in 1..Len(ret) : ret[k].d = x.d
             new  == IF ~IsNum(x.o) THEN [d |-> x.d, maxd |-> 0, mini |-> 0]
                     ELSE IF ~seen
                          THEN [d |-> x.d, maxd |-> -x.o.c,
                                mini |-> LegalIncrement(x.f, x.d, x.o)]
                          ELSE [d |-> x.d,
                                maxd |-> MaxOf({ret[pos].maxd, -x.o.c}),
                                mini |-> MinOf({ret[pos].mini,
                                                LegalIncrement(x.f, x.d, x.o)})]
         IN  LegalShiftsFold(Tail(es),
                             IF seen THEN [ret EXCEPT ![pos] = new]
                             ELSE Append(ret, new))

pivot_legal_shifts(g) == LegalShiftsFold(PivotEntries(g[1]), <<>>)

\* The table of rotations for v = mini - maxd: m[i][j] = j-i if j>i else 0,
\* then (m - m.T)[::-1, :]; rows and columns are numbered from 0
RotBase(i, j) == IF j > i THEN j - i ELSE 0
RotTable(v) ==
    [r \in 0..v |-> [j \in 0..v |-> RotBase(v - r, j) - RotBase(j, v - r)]]

\* np.where(m[0] == maxd)[0] and np.where(m[-1] == mini)[0]
RotIndexFirst(v, maxd) == {j \in 0..v : RotTable(v)[0][j] = maxd}
RotIndexLast(v, mini)  == {j \in 0..v : RotTable(v)[v][j] = mini}

\* The outcome of _pivot_rotations along one Dimension
RotationStatus(sh) ==
    LET v == sh.mini - sh.maxd
    IN  IF v < 0 THEN "IndexError"
        ELSE IF Cardinality(RotIndexFirst(v, sh.maxd)) # 1 THEN "AssertionError"
        ELSE IF RotIndexFirst(v, sh.maxd) # RotIndexLast(v, sh.mini)
             THEN "AssertionError"
        ELSE "ok"

\* The rotation Intervals (min and max of each row) and the pivot's column
pivot_rotations(g) ==
    LET shs == pivot_legal_shifts(g)
    IN  [k \in 1..Len(shs) |->
           LET v == shs[k].mini - shs[k].maxd
           IN  [d |-> shs[k].d,
                m |-> [r \in 0..v |-> [lower |-> MinOf(Range([j \in 1..(v+1) |-> RotTable(v)[r][j-1]])),
                                       upper |-> MaxOf(Range([j \in 1..(v+1) |-> RotTable(v)[r][j-1]]))]],
                index |-> CHOOSE j \in RotIndexFirst(v, shs[k].maxd) : TRUE]]

RECURSIVE FirstFailure(_)
FirstFailure(q) ==
    IF q = <<>> THEN "ok"
    ELSE IF Head(q) # "ok" THEN Head(q) ELSE FirstFailure(Tail(q))

\* "rotationss = [group.rotations for group in groups]", then the assertion
\* that every Group's rotations cover the Dimensions of the bucket
GroupRotationStatus(g) ==
    FirstFailure([k \in 1..Len(pivot_legal_shifts(g)) |->
                    RotationStatus(pivot_legal_shifts(g)[k])])

RotationsStatus(groups, dims) ==
    LET st == FirstFailure([k \in 1..Len(groups) |-> GroupRotationStatus(groups[k])])
    IN  IF st # "ok" THEN st
        ELSE IF \E k \in 1..Len(groups) :
                   {pivot_legal_shifts(groups[k])[n].d :
                       n \in 1..Len(pivot_legal_shifts(groups[k]))} # dims
             THEN "AssertionError"
        ELSE "ok"

-----------------------------------------------------------------------------
(* collect: the maximum distances (MDs) *)

\* mds is a dict in insertion order, kept as a sequence of [d, v]
mdsHas(mds, d) == \E k \in 1..Len(mds) : mds[k].d = d
mdsGet(mds, d) ==
    IF mdsHas(mds, d) THEN mds[CHOOSE k \in 1..Len(mds) : mds[k].d = d].v ELSE 0
mdsMax(mds, d, x) ==
    IF mdsHas(mds, d)
    THEN [k \in 1..Len(mds) |->
            IF mds[k].d = d THEN [d |-> d, v |-> MaxOf({mds[k].v, x})] ELSE mds[k]]
    ELSE Append(mds, [d |-> d, v |-> x])

\* MDDistance that takes any TypeError for "all good"
MDDistanceLenient(v) == IF Comparable(v) THEN VMax(v) - VMin(v) ELSE 0

\* int(max(v) - min(v)); on TypeError 0 if all entries are the same, and
\* otherwise the Group must be dropped (-1 stands for "raise ValueError")
MDDistance(v) ==
    IF Comparable(v) THEN VMax(v) - VMin(v)
    ELSE IF Cardinality(Range(v)) = 1 THEN 0
    ELSE -1

\* One Group: mds is updated entry by entry until an entry raises
RECURSIVE MDGroup(_, _)
MDGroup(es, mds) ==
    IF es = <<>> THEN [ok |-> TRUE, mds |-> mds]
    ELSE IF MDDistance(Head(es).v) < 0 THEN [ok |-> FALSE, mds |-> mds]
    ELSE MDGroup(Tail(es), mdsMax(mds, Head(es).d, MDDistance(Head(es).v)))

\* All Groups of the bucket: the Groups kept and the resulting mds
RECURSIVE MDStep(_, _)
MDStep(groups, mds) ==
    IF groups = <<>> THEN [groups |-> <<>>, mds |-> mds]
    ELSE LET r    == MDGroup(GEntries(Head(groups)), mds)
             rest == MDStep(Tail(groups), r.mds)
         IN  [groups |-> IF r.ok THEN <<Head(groups)>> \o rest.groups ELSE rest.groups,
              mds    |-> rest.mds]

-----------------------------------------------------------------------------
(* collect: the shifts *)

\* All offsets of the Group along d, with the function accessed
GroupOffsets(g, d) ==
    LET es == Flatten([m \in 1..Len(g) |-> PivotEntries(g[m])])
    IN  {[f |-> e.f, o |-> e.o] : e \in {x \in Range(es) : x.d = d}}

\* Group.mlds and Group.mlis: the max legal decrement and the min legal
\* increment of the Group along d (0 for symbolic offsets)
mlds(g, d) ==
    IF \A x \in GroupOffsets(g, d) : IsNum(x.o)
    THEN MinOf({x.o.c : x \in GroupOffsets(g, d)})
    ELSE 0
mlis(g, d) ==
    IF \A x \in GroupOffsets(g, d) : IsNum(x.o)
    THEN MinOf({SizeHalo(x.f, d) - x.o.c : x \in GroupOffsets(g, d)})
    ELSE 0

Dims == {"i", "j"}
NoShift == [d \in Dims |-> 0]

\* One Group: the shift mapper, entry by entry, until an entry raises
RECURSIVE ShiftGroup(_, _, _, _)
ShiftGroup(g, es, mds, mapper) ==
    IF es = <<>> THEN [ok |-> TRUE, mapper |-> mapper]
    ELSE LET d             == Head(es).d
             n_extra_iters == mdsGet(mds, d) - mlis(g, d)
         IN  IF n_extra_iters <= 0
             THEN ShiftGroup(g, Tail(es), mds, mapper)
             ELSE IF n_extra_iters <= mlds(g, d)
             THEN ShiftGroup(g, Tail(es), mds,
                             [mapper EXCEPT ![d] = MaxOf({mapper[d], n_extra_iters})])
             ELSE [ok |-> FALSE, mapper |-> mapper]

\* ShiftAppend for every Group, the dropped ones too
ShiftAppendAlways(shifts, r) == Append(shifts, r.mapper)

\* "shifts.append(mapper)" happens only for a Group that did not raise
ShiftAppend(shifts, r) == IF r.ok THEN Append(shifts, r.mapper) ELSE shifts

RECURSIVE ShiftStep(_, _)
ShiftStep(groups, mds) ==
    IF groups = <<>> THEN [groups |-> <<>>, shifts |-> <<>>]
    ELSE LET r    == ShiftGroup(Head(groups), GEntries(Head(groups)), mds, NoShift)
             rest == ShiftStep(Tail(groups), mds)
         IN  [groups |-> IF r.ok THEN <<Head(groups)>> \o rest.groups ELSE rest.groups,
              shifts |-> ShiftAppend(<<>>, r) \o rest.shifts]

\* any(shifts): some mapper is not empty
AnyShifts(shifts) == \E k \in 1..Len(shifts) : \E d \in DOMAIN shifts[k] : shifts[k][d] # 0

-----------------------------------------------------------------------------
(* collect: iteration Intervals, Basis Alias offsets, distances *)

Interval(dim, lower, upper) == [dim |-> dim, null |-> FALSE, lower |-> lower, upper |-> upper]
NullInterval(dim) == [dim |-> dim, null |-> TRUE, lower |-> 0, upper |-> 0]

\* MakeInterval with the centred Interval cut to -(v//2), v//2
MakeIntervalHalved(anyshift, d, v) ==
    IF anyshift THEN Interval(d, 0, v)
    ELSE Interval(d, 0 - FloorDiv2(v), FloorDiv2(v))

\* Interval(d, 0, v) if any Group is shifted, else Interval(d, -v//2, (v+1)//2)
MakeInterval(anyshift, d, v) ==
    IF anyshift THEN Interval(d, 0, v)
    ELSE Interval(d, FloorDiv2(-v), FloorDiv2(v + 1))
MakeIntervals(anyshift, mds) ==
    [k \in 1..Len(mds) |-> MakeInterval(anyshift, mds[k].d, mds[k].v)]

\* np.mean(v, dtype=int): the integer sum divided by the length, truncated
IntMean(v) == TruncDiv(SumSeq([k \in 1..Len(v) |-> v[k].c]), Len(v))

\* pick(d, v, shift) with its TypeError fallback; [ok |-> FALSE] stands for
\* the failed assertion len(set(v)) == 1
Pick(anyshift, d, v, shift) ==
    IF anyshift
    THEN [ok |-> TRUE, o |-> [s |-> v[1].s, c |-> VMin(v) - shift[d]]]
    ELSE IF \A k \in 1..Len(v) : IsNum(v[k])
         THEN [ok |-> TRUE, o |-> Num(IntMean(v))]
         ELSE IF Cardinality(Range(v)) = 1
              THEN [ok |-> TRUE, o |-> [s |-> v[1].s, c |-> v[1].c - shift[d]]]
              ELSE [ok |-> FALSE, o |-> Num(0)]

\* The Basis Alias offsets of a Group: one LabeledVector per access
BasisPicks(anyshift, g, shift) ==
    [k \in 1..Len(GToffsets(g)) |->
       [n \in 1..Len(GToffsets(g)[k]) |->
          Pick(anyshift, GToffsets(g)[k][n].d, GToffsets(g)[k][n].v, shift)]]
BasisOk(anyshift, g, shift) ==
    \A k \in 1..Len(GToffsets(g)) : \A n \in 1..Len(GToffsets(g)[k]) :
        BasisPicks(anyshift, g, shift)[k][n].ok
BasisOffsets(anyshift, g, shift) ==
    [k \in 1..Len(GToffsets(g)) |->
       [n \in 1..Len(GToffsets(g)[k]) |->
          [d |-> GToffsets(g)[k][n].d, o |-> BasisPicks(anyshift, g, shift)[k][n].o]]]

\* The Basis Alias: the pivot with x + v.fromlabel(x, 0) for every index x
BasisAlias(g, boffsets) ==
    [op  |-> g[1].op,
     acc |-> [k \in 1..Len(g[1].acc) |->
                [f   |-> g[1].acc[k].f,
                 off |-> [n \in 1..Len(g[1].acc[k].off) |->
                            [d |-> g[1].acc[k].off[n].d,
                             o |-> fromlabel(boffsets[k], g[1].acc[k].off[n].d, Num(0))]]]]]

\* o.distance(v): defined for equal labels only (TypeError otherwise)
LVDistance(o, v) == [n \in 1..Len(o) |-> [d |-> o[n].d, o |-> OSub(o[n].o, v[n].o)]]

\* The distance of a member from the Basis Alias, per Dimension the set of
\* the distances of its accesses
MemberDistance(c, boffsets) ==
    LET t == transpose([k \in 1..Len(c.acc) |-> LVDistance(c.acc[k].off, boffsets[k])])
    IN  [n \in 1..Len(t) |-> [d |-> t[n].d, v |-> Range(t[n].v)]]

\* DistanceUniform without the test of line 318: no distance is ever refused
DistanceUniformUnchecked(dist) == TRUE

\* "if any(len(v) != 1 for d, v in distance): raise ValueError"
DistanceUniform(dist) == \A n \in 1..Len(dist) : Cardinality(dist[n].v) = 1

MemberStatus(c, boffsets) ==
    IF Len(boffsets) # Len(c.acc) THEN "AssertionError"
    ELSE IF \E k \in 1..Len(c.acc) : labels(c.acc[k].off) # labels(boffsets[k])
         THEN "TypeError"
    ELSE IF ~DistanceUniform(MemberDistance(c, boffsets)) THEN "ValueError"
    ELSE "ok"

DistanceVector(c, boffsets) ==
    LET dist == MemberDistance(c, boffsets)
    IN  [n \in 1..Len(dist) |-> [d |-> dist[n].d, o |-> CHOOSE x \in dist[n].v : TRUE]]

\* Aliases.add: aliases is an OrderedDict, kept as a sequence of entries
AliasesAdd(aliases, alias, aliaseds, distances) ==
    IF \E k \in 1..Len(aliases) : aliases[k].alias = alias
    THEN [k \in 1..Len(aliases) |->
            IF aliases[k].alias = alias
            THEN [alias |-> alias, aliaseds |-> aliaseds, distances |-> distances]
            ELSE aliases[k]]
    ELSE Append(aliases, [alias |-> alias, aliaseds |-> aliaseds, distances |-> distances])

GroupStatus(g, boffsets) ==
    FirstFailure([m \in 1..Len(g) |-> MemberStatus(g[m], boffsets)])

\* The last loop of collect over zip(groups, offsetss)
RECURSIVE AddAll(_, _, _)
AddAll(groups, offsetss, aliases) ==
    IF groups = <<>> \/ offsetss = <<>> THEN [status |-> "ok", entries |-> aliases]
    ELSE LET g  == Head(groups)
             bo == Head(offsetss)
         IN  IF GroupStatus(g, bo) # "ok"
             THEN [status |-> GroupStatus(g, bo), entries |-> <<>>]
             ELSE AddAll(Tail(groups), Tail(offsetss),
                         AliasesAdd(aliases, BasisAlias(g, bo),
                                    [m \in 1..Len(g) |-> Rhs(g[m])],
                                    [m \in 1..Len(g) |-> DistanceVector(g[m], bo)]))

-----------------------------------------------------------------------------
(* collect *)

\* The loop building offsetss over zip(groups, shifts)
OffsetsStep(anyshift, groups, shifts) ==
    LET n == IF Len(groups) < Len(shifts) THEN Len(groups) ELSE Len(shifts)
    IN  [ok |-> \A k \in 1..n : BasisOk(anyshift, groups[k], shifts[k]),
         offsetss |-> [k \in 1..n |-> BasisOffsets(anyshift, groups[k], shifts[k])]]

EmptyCollect ==
    [status |-> "ok", at |-> "end", mapper |-> <<>>, groups0 |-> <<>>, mds |-> <<>>,
     groupsMD |-> <<>>, groupsSh |-> <<>>, shifts |-> <<>>, anyshift |-> FALSE,
     offsetss |-> <<>>, dimensions |-> <<>>, intervals |-> <<>>, entries |-> <<>>]

\* The locals of collect at its end and its outcome: status "ok" and the
\* Aliases (dimensions, intervals, entries), or the exception raised and the
\* step that raised it. The table of the ways to cover the MDs and intervalss
\* (lines 222-249) are computed and never read again: they are left out.
collect(es) ==
    LET mapper == MakeGroups(analyze(es))
    IN  IF mapper = <<>> THEN EmptyCollect
        ELSE
        LET groups0 == Bucket(mapper)
            rot     == RotationsStatus(groups0, LastKey(mapper))
            md      == MDStep(groups0, <<>>)
            sh      == ShiftStep(md.groups, md.mds)
            anys    == AnyShifts(sh.shifts)
            ofs     == OffsetsStep(anys, sh.groups, sh.shifts)
            add     == AddAll(sh.groups, ofs.offsetss, <<>>)
            c0      == [EmptyCollect EXCEPT !.mapper = mapper, !.groups0 = groups0]
            c1      == [c0 EXCEPT !.mds = md.mds, !.groupsMD = md.groups,
                                  !.groupsSh = sh.groups, !.shifts = sh.shifts,
                                  !.anyshift = anys]
        IN  IF rot # "ok" THEN [c0 EXCEPT !.status = rot, !.at = "rotations"]
            ELSE IF ~ofs.ok
                 THEN [c1 EXCEPT !.status = "AssertionError", !.at = "offsets"]
            ELSE IF add.status # "ok"
                 THEN [c1 EXCEPT !.status = add.status, !.at = "distances",
                                 !.offsetss = ofs.offsetss]
            ELSE [c1 EXCEPT !.offsetss = ofs.offsetss,
                            !.dimensions = [k \in 1..Len(md.mds) |-> md.mds[k].d],
                            !.intervals = MakeIntervals(anys, md.mds),
                            !.entries = add.entries]

-----------------------------------------------------------------------------
(* choose *)

MIN_COST_ALIAS == 10
MIN_COST_ALIAS_INV == 50

\* Aliases.get: the aliaseds of the entry whose alias is key, else of the
\* first entry holding key among its aliaseds, else []
AliasesGet(entries, key) ==
    IF \E k \in 1..Len(entries) : entries[k].alias = key
    THEN entries[CHOOSE k \in 1..Len(entries) : entries[k].alias = key].aliaseds
    ELSE IF \E k \in 1..Len(entries) : key \in Range(entries[k].aliaseds)
         THEN entries[MinOf({k \in 1..Len(entries) :
                                key \in Range(entries[k].aliaseds)})].aliaseds
         ELSE <<>>

naliases(entries, e) == Len(AliasesGet(entries, Rhs(e)))
WeightedCost(entries, e) == e.cost * naliases(entries, e)

\* time_invariants[e.rhs]: the flag of the last expression with that rhs
TimeInvariant(es, e) ==
    es[MaxOf({k \in 1..Len(es) : Rhs(es[k]) = Rhs(e)})].tinv

\* test0 with a strict comparison of the cost
test0Strict(entries, e) ==
    WeightedCost(entries, e) > MIN_COST_ALIAS /\ naliases(entries, e) > 1

\* test1 without the time-invariance of the expression
test1AnyExpr(es, entries, e) ==
    WeightedCost(entries, e) >= MIN_COST_ALIAS_INV

test0(entries, e) ==
    WeightedCost(entries, e) >= MIN_COST_ALIAS /\ naliases(entries, e) > 1
test1(es, entries, e) ==
    WeightedCost(entries, e) >= MIN_COST_ALIAS_INV /\ TimeInvariant(es, e)
Selected(es, entries, e) == test0(entries, e) \/ test1(es, entries, e)

\* candidates is an OrderedDict rhs -> lhs, kept as a sequence of [rhs, lhs]
CandPut(cands, rhs, lhs) ==
    IF \E k \in 1..Len(cands) : cands[k].rhs = rhs
    THEN [k \in 1..Len(cands) |->
            IF cands[k].rhs = rhs THEN [rhs |-> rhs, lhs |-> lhs] ELSE cands[k]]
    ELSE Append(cands, [rhs |-> rhs, lhs |-> lhs])

RECURSIVE ChooseFold(_, _, _, _)
ChooseFold(es, entries, k, acc) ==
    IF k > Len(es) THEN acc
    ELSE IF Selected(es, entries, es[k])
         THEN ChooseFold(es, entries, k + 1,
                         [acc EXCEPT !.candidates =
                              CandPut(acc.candidates, Rhs(es[k]), es[k].lhs)])
         ELSE ChooseFold(es, entries, k + 1,
                         [acc EXCEPT !.processed = Append(acc.processed, es[k])])

choose(es, entries) ==
    ChooseFold(es, entries, 1, [candidates |-> <<>>, processed |-> <<>>])

InCandidates(cands, rhs) == \E k \in 1..Len(cands) : cands[k].rhs = rhs
CandLhs(cands, rhs) == cands[CHOOSE k \in 1..Len(cands) : cands[k].rhs = rhs].lhs

-----------------------------------------------------------------------------
(* process and rebuild *)

\* writeto: the Intervals from the first one with a non-zero bound onwards
Writeto(intervals) ==
    LET dep == {k \in 1..Len(intervals) :
                   intervals[k].lower # 0 \/ intervals[k].upper # 0}
    IN  IF dep = {} THEN intervals
        ELSE SubSeq(intervals, MinOf(dep), Len(intervals))

\* subs is a dict, kept as a sequence of [key, val]; a key is an expression
\* ([rhs |-> ...]) or the Scalar on the left of a candidate ([lhs |-> ...])
SubsPut(subs, key, val) ==
    IF \E k \in 1..Len(subs) : subs[k].key = key
    THEN [k \in 1..Len(subs) |->
            IF subs[k].key = key THEN [key |-> key, val |-> val] ELSE subs[k]]
    ELSE Append(subs, [key |-> key, val |-> val])
SubsHas(subs, key) == \E k \in 1..Len(subs) : subs[k].key = key
SubsGet(subs, key) == subs[CHOOSE k \in 1..Len(subs) : subs[k].key = key].val

\* xreplace on an expression that the model keeps whole: the expression, and
\* the access to a temporary that replaces it, if any
NoAccess == [name |-> 0, indices |-> <<>>]
Xreplace(rhs, subs) ==
    IF SubsHas(subs, [rhs |-> rhs])
    THEN [expr |-> rhs, replaced |-> TRUE, by |-> SubsGet(subs, [rhs |-> rhs])]
    ELSE [expr |-> rhs, replaced |-> FALSE, by |-> NoAccess]

\* array[indices] for the Basis Alias: d - writeto[d].lower
WriteIndices(writeto) ==
    [k \in 1..Len(writeto) |-> [d |-> writeto[k].dim, o |-> Num(0 - writeto[k].lower)]]

\* array[indices] for an aliased: d - i.lower + distance[i.dim]
ReadIndices(writeto, distance) ==
    [k \in 1..Len(writeto) |->
       [d |-> writeto[k].dim,
        o |-> [s |-> fromlabel(distance, writeto[k].dim, Num(0)).s,
               c |-> 0 - writeto[k].lower
                       + fromlabel(distance, writeto[k].dim, Num(0)).c]]]

\* The substitution rules of one Aliases entry
RECURSIVE EntrySubs(_, _, _, _, _, _)
EntrySubs(entry, n, writeto, array, cands, subs) ==
    IF n > Len(entry.aliaseds) THEN subs
    ELSE LET aliased == entry.aliaseds[n]
             val     == [name |-> array,
                         indices |-> ReadIndices(writeto, entry.distances[n])]
             s1      == SubsPut(subs, [rhs |-> aliased], val)
             s2      == IF InCandidates(cands, aliased)
                        THEN SubsPut(s1, [lhs |-> CandLhs(cands, aliased)], val)
                        ELSE s1
         IN  EntrySubs(entry, n + 1, writeto, array, cands, s2)

\* Materialized without the test: no entry is skipped
MaterializedAlways(entry, cands) == TRUE

\* An entry none of whose aliaseds is a candidate is skipped
Materialized(entry, cands) ==
    \E n \in 1..Len(entry.aliaseds) : InCandidates(cands, entry.aliaseds[n])

\* The loop of process over aliases.items(); the temporaries are named in
\* creation order (template())
RECURSIVE ProcessFold(_, _, _, _, _)
ProcessFold(entries, k, writeto, cands, acc) ==
    IF k > Len(entries) THEN acc
    ELSE IF ~Materialized(entries[k], cands)
         THEN ProcessFold(entries, k + 1, writeto, cands, acc)
         ELSE LET array == Len(acc.clusters) + 1
                  new   == [array   |-> array,
                            dimensions |-> [n \in 1..Len(writeto) |-> writeto[n].dim],
                            halo    |-> [n \in 1..Len(writeto) |->
                                           <<IF writeto[n].lower < 0 THEN -writeto[n].lower
                                             ELSE writeto[n].lower,
                                             IF writeto[n].upper < 0 THEN -writeto[n].upper
                                             ELSE writeto[n].upper>>],
                            indices |-> WriteIndices(writeto),
                            origin  |-> entries[k].alias,
                            rhs     |-> Xreplace(entries[k].alias, acc.subs)]
              IN  ProcessFold(entries, k + 1, writeto, cands,
                              [clusters |-> Append(acc.clusters, new),
                               subs     |-> EntrySubs(entries[k], 1, writeto, array,
                                                      cands, acc.subs)])

process(cands, aliases) ==
    ProcessFold(aliases.entries, 1, Writeto(aliases.intervals), cands,
                [clusters |-> <<>>, subs |-> <<>>])

\* rebuild: the expressions left over by choose, with subs applied
rebuild(others, subs) ==
    [k \in 1..Len(others) |->
       [lhs |-> others[k].lhs, rhs |-> Xreplace(Rhs(others[k]), subs)]]

-----------------------------------------------------------------------------
(* The interval algebra of devito/ir/support/space.py *)

min_extent(a) == IF a.upper - a.lower < 0 THEN a.lower - a.upper ELSE a.upper - a.lower

\* overlap with the first of the two comparisons of the lowers only
overlapOneSided(a, b) ==
    IF a.null THEN FALSE
    ELSE IF a.dim # b.dim THEN FALSE
    ELSE IF b.null THEN FALSE
    ELSE LET me == MaxOf({min_extent(a), min_extent(b)})
         IN  a.lower <= b.lower /\ b.lower <= a.lower + me

\* Interval.overlap and NullInterval.overlap
overlap(a, b) ==
    IF a.null THEN FALSE
    ELSE IF a.dim # b.dim THEN FALSE
    ELSE IF b.null THEN FALSE
    ELSE LET me == MaxOf({min_extent(a), min_extent(b)})
         IN  \/ (a.lower <= b.lower /\ b.lower <= a.lower + me)
             \/ (a.lower >= b.lower /\ a.lower <= b.lower + me)

\* Interval.intersection and AbstractInterval.intersection
intersection(a, b) ==
    IF a.null THEN NullInterval(a.dim)
    ELSE IF overlap(a, b)
         THEN Interval(a.dim, MaxOf({a.lower, b.lower}), MinOf({a.upper, b.upper}))
         ELSE NullInterval(a.dim)

\* mapper = OrderedDict([(i.dim, i) for i in o]); mapper.get(dim, dflt)
IGMapperGet(o, dim, dflt) ==
    IF \E k \in 1..Len(o) : o[k].dim = dim
    THEN o[MaxOf({k \in 1..Len(o) : o[k].dim = dim})]
    ELSE dflt

\* IntervalGroup.intersection
IGIntersection(g, o) ==
    [k \in 1..Len(g) |-> intersection(g[k], IGMapperGet(o, g[k].dim, g[k]))]

\* IntervalGroup.__eq__: set(self) == set(o)
IGEq(g, o) == Range(g) = Range(o)

\* IntervalGroup.dimensions: filter_ordered([i.dim for i in self])
IGDimensions(g) == filter_ordered([k \in 1..Len(g) |-> g[k].dim])

\* IntervalGroup.is_well_defined:
\* len(self.dimensions) == len(set(self.dimensions))
is_well_defined(g) == Len(IGDimensions(g)) = Cardinality(Range(IGDimensions(g)))

\* IntervalGroup.__getitem__ with a Dimension for key: ValueError if the
\* group is not well defined, else the first Interval over key, else None
\* (the loop ends and the method returns nothing)
NoItem == NullInterval("none")
IGGetitem(g, key) ==
    IF ~is_well_defined(g) THEN [status |-> "ValueError", value |-> NoItem]
    ELSE IF \E k \in 1..Len(g) : g[k].dim = key
         THEN [status |-> "ok",
               value |-> g[MinOf({k \in 1..Len(g) : g[k].dim = key})]]
         ELSE [status |-> "None", value |-> NoItem]

-----------------------------------------------------------------------------
(* Bounds *)

MaxExprs == 3
MaxIG == 1
MaxBound == 2
MaxGroup == 2
MaxItemBound == 1

\* The lists of extracted expressions: up to MaxExprs distinct expressions
\* of the Catalogue in any order, and the two orders of the docstring
IndexLists ==
    {q \in UNION {[1..n -> 1..Len(Catalogue)] : n \in 0..MaxExprs} :
        \A x, y \in 1..Len(q) : x # y => q[x] # q[y]}
    \cup {SpecOrder, DocOrder}
Inputs == {[k \in 1..Len(q) |-> Catalogue[q[k]]] : q \in IndexLists}

Intervals ==
    {NullInterval(d) : d \in Dims}
    \cup {Interval(d, l, u) : d \in Dims, l \in (0 - MaxBound)..MaxBound,
                              u \in (0 - MaxBound)..MaxBound}
IntervalGroups == UNION {[1..n -> Intervals] : n \in 0..MaxIG}

\* The IntervalGroups that are indexed: up to MaxGroup Intervals, two of
\* them over the same Dimension included
ItemIntervals ==
    {NullInterval(d) : d \in Dims}
    \cup {Interval(d, l, u) : d \in Dims, l \in (0 - MaxItemBound)..MaxItemBound,
                              u \in (0 - MaxItemBound)..MaxItemBound}
ItemGroups == UNION {[1..n -> ItemIntervals] : n \in 0..MaxGroup}

-----------------------------------------------------------------------------
(* cire as a state machine *)

NoChoice == [candidates |-> <<>>, processed |-> <<>>]
NoOutput == [clusters |-> <<>>, subs |-> <<>>, ret |-> "none", list |-> <<>>,
             exc |-> "none"]
SpIdle == [phase |-> "idle", g |-> <<>>, o |-> <<>>, r1 |-> <<>>, r2 |-> <<>>]
IgIdle == [phase |-> "idle", g |-> <<>>, key |-> "none",
           item |-> [status |-> "None", value |-> NoItem],
           a |-> NoItem, b |-> NoItem, ab |-> FALSE, ba |-> FALSE]

Init ==
    /\ pc = "start"
    /\ exprs = <<>>
    /\ col = EmptyCollect
    /\ chosen = NoChoice
    /\ out = NoOutput
    /\ trace = <<>>
    /\ sp = SpIdle
    /\ ig = IgIdle

\* exprs = extract(cluster, template, mode): what yreplace makes of the
\* cluster is an input of the model
Extract ==
    /\ pc = "start"
    /\ \E es \in Inputs : exprs' = es
    /\ pc' = "extracted"
    /\ trace' = Append(trace, "extract")
    /\ UNCHANGED <<col, chosen, out, sp, ig>>

\* aliases = collect(exprs); an exception leaves cire, which has no handler
Collect ==
    /\ pc = "extracted"
    /\ col' = collect(exprs)
    /\ trace' = Append(trace, "collect")
    /\ IF col'.status = "ok"
       THEN pc' = "collected" /\ out' = out
       ELSE pc' = "raised" /\ out' = [out EXCEPT !.ret = "raised", !.exc = col'.status]
    /\ UNCHANGED <<exprs, chosen, sp, ig>>

\* candidates, others = choose(exprs, aliases)
Choose ==
    /\ pc = "collected"
    /\ chosen' = choose(exprs, col.entries)
    /\ pc' = "chosen"
    /\ trace' = Append(trace, "choose")
    /\ UNCHANGED <<exprs, col, out, sp, ig>>

\* "if not candidates: return cluster"
ReturnInput ==
    /\ pc = "chosen"
    /\ chosen.candidates = <<>>
    /\ out' = [out EXCEPT !.ret = "input"]
    /\ pc' = "done"
    /\ UNCHANGED <<exprs, col, chosen, trace, sp, ig>>

\* Process without the early return of cire before it
ProcessUnguarded ==
    /\ pc = "chosen"
    /\ out' = [out EXCEPT !.clusters = process(chosen.candidates, col).clusters,
                          !.subs = process(chosen.candidates, col).subs]
    /\ pc' = "processed"
    /\ trace' = Append(trace, "process")
    /\ UNCHANGED <<exprs, col, chosen, sp, ig>>

\* clusters, subs = process(cluster, candidates, aliases, template, platform)
Process ==
    /\ pc = "chosen"
    /\ chosen.candidates # <<>>
    /\ out' = [out EXCEPT !.clusters = process(chosen.candidates, col).clusters,
                          !.subs = process(chosen.candidates, col).subs]
    /\ pc' = "processed"
    /\ trace' = Append(trace, "process")
    /\ UNCHANGED <<exprs, col, chosen, sp, ig>>

\* rebuilt = rebuild(cluster, others, aliases, subs);
\* return clusters + [rebuilt]
Rebuild ==
    /\ pc = "processed"
    /\ out' = [out EXCEPT !.ret = "list",
                          !.list = out.clusters
                                   \o <<[rebuilt |-> rebuild(chosen.processed, out.subs)]>>]
    /\ pc' = "done"
    /\ trace' = Append(trace, "rebuild")
    /\ UNCHANGED <<exprs, col, chosen, sp, ig>>

Next == Extract \/ Collect \/ Choose \/ ReturnInput \/ Process \/ Rebuild

Spec == Init /\ [][Next]_vars

-----------------------------------------------------------------------------
(* The interval algebra applied to bounded IntervalGroups *)

InitSpace ==
    /\ pc = "space"
    /\ exprs = <<>>
    /\ col = EmptyCollect
    /\ chosen = NoChoice
    /\ out = NoOutput
    /\ trace = <<>>
    /\ ig = IgIdle
    /\ \E g \in IntervalGroups, o \in IntervalGroups :
          sp = [phase |-> "new", g |-> g, o |-> o, r1 |-> <<>>, r2 |-> <<>>]

\* r1 = g.intersection(o)
Intersect ==
    /\ sp.phase = "new"
    /\ sp' = [sp EXCEPT !.phase = "once", !.r1 = IGIntersection(sp.g, sp.o)]
    /\ UNCHANGED <<pc, exprs, col, chosen, out, trace, ig>>

\* r2 = r1.intersection(o)
IntersectAgain ==
    /\ sp.phase = "once"
    /\ sp' = [sp EXCEPT !.phase = "twice", !.r2 = IGIntersection(sp.r1, sp.o)]
    /\ UNCHANGED <<pc, exprs, col, chosen, out, trace, ig>>

NextSpace == Intersect \/ IntersectAgain

SpecSpace == InitSpace /\ [][NextSpace]_vars

-----------------------------------------------------------------------------
(* Indexing an IntervalGroup and the overlap of its Intervals *)

InitGroup ==
    /\ pc = "group"
    /\ exprs = <<>>
    /\ col = EmptyCollect
    /\ chosen = NoChoice
    /\ out = NoOutput
    /\ trace = <<>>
    /\ sp = SpIdle
    /\ \E g \in ItemGroups : ig = [IgIdle EXCEPT !.phase = "new", !.g = g]

\* item = g[key], key a Dimension
Getitem ==
    /\ ig.phase = "new"
    /\ \E key \in Dims :
          ig' = [ig EXCEPT !.phase = "item", !.key = key,
                           !.item = IGGetitem(ig.g, key)]
    /\ UNCHANGED <<pc, exprs, col, chosen, out, trace, sp>>

\* a.overlap(b) and b.overlap(a) for two Intervals a, b of the group
Overlap ==
    /\ ig.phase = "new"
    /\ \E x, y \in 1..Len(ig.g) :
          ig' = [ig EXCEPT !.phase = "overlap", !.a = ig.g[x], !.b = ig.g[y],
                           !.ab = overlap(ig.g[x], ig.g[y]),
                           !.ba = overlap(ig.g[y], ig.g[x])]
    /\ UNCHANGED <<pc, exprs, col, chosen, out, trace, sp>>

NextGroup == Getitem \/ Overlap

SpecGroup == InitGroup /\ [][NextGroup]_vars

-----------------------------------------------------------------------------
(* Properties *)

Collected == pc \in {"collected", "chosen", "processed", "done"}
Chose == pc \in {"chosen", "processed", "done"}
Processed == pc \in {"processed", "done"} /\ out.ret \in {"none", "list"}

DistAlong(dist, d) == fromlabel(dist, d, Num(0))
OAdd(x, y) == [s |-> x.s + y.s, c |-> x.c + y.c]

\* The entry of the Aliases that records the expression rhs, if any
EntriesOf(rhs) == {k \in 1..Len(col.entries) : rhs \in Range(col.entries[k].aliaseds)}

\* C1: for every entry of the Aliases, every aliased expression m of it with
\* its distance vector, every access k and every index of it along a
\* Dimension d, the offset of the Basis Alias plus the distance along d is
\* the offset of m; and process records for m a read of the temporary at
\* d - writeto.lower + dist[d], the Basis Alias being written at
\* d - writeto.lower.
C1_RoundTrip ==
    /\ \A e \in 1..Len(col.entries) : \A m \in 1..Len(col.entries[e].aliaseds) :
         LET entry == col.entries[e]
             orig  == entry.aliaseds[m]
         IN  \A k \in 1..Len(orig.acc) : \A n \in 1..Len(orig.acc[k].off) :
                 OAdd(entry.alias.acc[k].off[n].o,
                      DistAlong(entry.distances[m], orig.acc[k].off[n].d))
                   = orig.acc[k].off[n].o
    /\ Processed =>
         \A c \in 1..Len(out.clusters) :
           LET new   == out.clusters[c]
               entry == col.entries[CHOOSE e \in 1..Len(col.entries) :
                                       col.entries[e].alias = new.origin]
               wr    == Writeto(col.intervals)
           IN  /\ \A w \in 1..Len(wr) : new.indices[w].o = Num(0 - wr[w].lower)
               /\ \A m \in 1..Len(entry.aliaseds) :
                    /\ SubsHas(out.subs, [rhs |-> entry.aliaseds[m]])
                    /\ LET rd == SubsGet(out.subs, [rhs |-> entry.aliaseds[m]])
                       IN  /\ rd.name = new.array
                           /\ \A w \in 1..Len(wr) :
                                rd.indices[w].o =
                                  OAdd(new.indices[w].o,
                                       DistAlong(entry.distances[m], wr[w].dim))

\* A materialized entry with two aliased expressions at different distances
C1_Witness ==
    /\ pc = "done" /\ out.ret = "list"
    /\ \E c \in 1..Len(out.clusters) : \E e \in 1..Len(col.entries) :
         /\ col.entries[e].alias = out.clusters[c].origin
         /\ Len(col.entries[e].aliaseds) = 2
         /\ col.entries[e].distances[1] # col.entries[e].distances[2]
         /\ col.anyshift

\* The expressions of the docstring of collect, by their place in Catalogue
DocExpr(n) == Rhs(Catalogue[n])
DocScenario == exprs \in {[k \in 1..6 |-> Catalogue[SpecOrder[k]]],
                          [k \in 1..6 |-> Catalogue[DocOrder[k]]]}

\* The Groups that collect made, whatever their bucket, as sets of expressions
GroupsMade == {{Rhs(col.mapper[g].group[m]) : m \in 1..Len(col.mapper[g].group)} :
                 g \in 1..Len(col.mapper)}

\* a[i+1]+b[i+1] and a[i-1]+b[i-1] make one Group without the other four
C2_Grouped == {DocExpr(1), DocExpr(2)} \in GroupsMade

NRecorded(e) ==
    IF EntriesOf(Rhs(e)) = {} THEN 0
    ELSE Len(col.entries[MinOf(EntriesOf(Rhs(e)))].aliaseds)

C3_Rule(e) ==
    \/ e.cost * NRecorded(e) >= 10 /\ NRecorded(e) > 1
    \/ e.cost * NRecorded(e) >= 50 /\ e.tinv

\* C3: choose selects e if and only if (cost >= 10 and n > 1) or (cost >= 50
\* and e.rhs is time-invariant), with cost = estimate_cost(e) * n; the
\* expressions not selected are handed, unchanged and in input order, to
\* rebuild; no expression is both selected and handed over.
C3_SelectionRule ==
    Chose =>
      /\ [k \in 1..Len(chosen.candidates) |->
             <<chosen.candidates[k].rhs, chosen.candidates[k].lhs>>]
           = [k \in 1..Len(SelectSeq(exprs, C3_Rule)) |->
                <<Rhs(SelectSeq(exprs, C3_Rule)[k]),
                  SelectSeq(exprs, C3_Rule)[k].lhs>>]
      /\ chosen.processed = SelectSeq(exprs, LAMBDA e : ~C3_Rule(e))
      /\ \A e \in Range(chosen.processed) : ~InCandidates(chosen.candidates, Rhs(e))
      /\ (pc = "done" /\ out.ret = "list") =>
           LET rb == out.list[Len(out.list)].rebuilt
           IN  /\ Len(rb) = Len(chosen.processed)
               /\ \A k \in 1..Len(rb) :
                    /\ rb[k].lhs = chosen.processed[k].lhs
                    /\ rb[k].rhs.expr = Rhs(chosen.processed[k])

\* Both tests select, the cost 10 is met exactly, and an expression that is
\* recorded in the Aliases is left over
C3_Witness ==
    /\ pc = "done" /\ out.ret = "list"
    /\ \E e \in Range(exprs) : e.cost * NRecorded(e) = 10 /\ NRecorded(e) = 2
    /\ \E e \in Range(exprs) : NRecorded(e) = 1 /\ e.tinv /\ e.cost >= 50
    /\ \E e \in Range(chosen.processed) : NRecorded(e) = 2

\* C4 as stated: an expression recorded in one aliasing position only is
\* never selected, whatever its cost; with cost 6 in two positions it is.
C4_AsStated ==
    Chose =>
      \A e \in Range(exprs) :
        /\ NRecorded(e) = 1 => ~InCandidates(chosen.candidates, Rhs(e))
        /\ (NRecorded(e) = 2 /\ e.cost = 6) => InCandidates(chosen.candidates, Rhs(e))

\* C4, amended: an expression recorded in one aliasing position only is
\* selected if and only if its cost is at least 50 and it is time-invariant
\* (so never when it is not time-invariant, whatever its cost); with cost 6
\* in two positions (weighted cost 12) it is selected.
C4_CostGate ==
    Chose =>
      \A e \in Range(exprs) :
        /\ NRecorded(e) = 1 =>
             (InCandidates(chosen.candidates, Rhs(e)) <=> (e.cost >= 50 /\ e.tinv))
        /\ (NRecorded(e) = 2 /\ e.cost = 6) => InCandidates(chosen.candidates, Rhs(e))

\* One position, cost 60, not time-invariant and not selected, next to
\* an expression of cost 6 in two positions
C4_Witness ==
    /\ Chose
    /\ \E e \in Range(exprs) :
         NRecorded(e) = 1 /\ e.cost >= 50 /\ ~e.tinv
         /\ ~InCandidates(chosen.candidates, Rhs(e))
    /\ \E e \in Range(exprs) :
         NRecorded(e) = 2 /\ e.cost = 6 /\ InCandidates(chosen.candidates, Rhs(e))


\* C5 as stated: whenever a step of cire fails, the invocation ends by
\* returning the input cluster unchanged, and no failure leaves the pass.
C5_SafeFallback ==
    /\ pc # "raised"
    /\ col.status # "ok" => out.ret = "input"

Stages == <<"extract", "collect", "choose", "process", "rebuild">>

\* C6: the stages run in the order extract, collect, choose, process,
\* rebuild; and whenever choose selects no candidate, neither process nor
\* rebuild runs and cire returns the input cluster itself.
C6_Pipeline ==
    /\ Len(trace) <= Len(Stages)
    /\ trace = SubSeq(Stages, 1, Len(trace))
    /\ (Chose /\ chosen.candidates = <<>>) =>
         /\ trace = SubSeq(Stages, 1, 3)
         /\ out.clusters = <<>> /\ out.subs = <<>> /\ out.list = <<>>
         /\ pc = "done" => out.ret = "input"

\* cire returned its input although collect had found aliases
C6_Witness ==
    pc = "done" /\ out.ret = "input" /\ col.entries # <<>> /\ chosen.candidates = <<>>

\* The entries of the Aliases with a selected aliased expression, in order
C7_Selected(entry) ==
    \E n \in 1..Len(entry.aliaseds) :
        InCandidates(chosen.candidates, entry.aliaseds[n])

\* C7: when a candidate is selected, cire returns a list whose last element
\* is the rebuilt cluster and whose other elements are one new cluster per
\* Basis Alias with a selected aliased expression, in the order of the
\* Aliases; a Basis Alias without any yields no cluster and no substitution.
C7_OutputComposition ==
    (pc = "done" /\ chosen.candidates # <<>>) =>
      LET mat == SelectSeq(col.entries, C7_Selected)
      IN  /\ out.ret = "list"
          /\ Len(out.list) = Len(mat) + 1
          /\ DOMAIN out.list[Len(out.list)] = {"rebuilt"}
          /\ \A k \in 1..Len(mat) :
               /\ "origin" \in DOMAIN out.list[k]
               /\ out.list[k].origin = mat[k].alias
          /\ \A e \in 1..Len(col.entries) :
               ~C7_Selected(col.entries[e]) =>
                 \A n \in 1..Len(col.entries[e].aliaseds) :
                   ~SubsHas(out.subs, [rhs |-> col.entries[e].aliaseds[n]])

\* Two Basis Aliases, of which one only is materialized
C7_Witness ==
    /\ pc = "done" /\ out.ret = "list"
    /\ Len(col.entries) >= 2
    /\ \E e \in 1..Len(col.entries) : ~C7_Selected(col.entries[e])
    /\ \E e \in 2..Len(col.entries) : C7_Selected(col.entries[e])

GroupRhs(g) == [m \in 1..Len(g) |-> Rhs(g[m])]
HasEntry(g) == \E e \in 1..Len(col.entries) : col.entries[e].aliaseds = GroupRhs(g)

\* MD[d] - mlis[d] is positive and exceeds mlds[d] for some Dimension d
C8_Unbounded(g) ==
    \E d \in dimensions(g[1]) :
        /\ mdsGet(col.mds, d) - mlis(g, d) > 0
        /\ mdsGet(col.mds, d) - mlis(g, d) > mlds(g, d)

\* The shift a Group needs: per Dimension the positive part of MD - mlis
C8_Required(g) ==
    [d \in Dims |->
       IF d \in dimensions(g[1]) /\ mdsGet(col.mds, d) - mlis(g, d) > 0
       THEN mdsGet(col.mds, d) - mlis(g, d) ELSE 0]

C9_SymbolicMix(g) == \E x \in Range(GEntries(g)) : ~Comparable(x.v)

\* Some member of a surviving Group is not at one distance per Dimension
\* from the Basis Alias
C9_NonUniform ==
    \E k \in 1..Len(col.offsetss) : \E m \in 1..Len(col.groupsSh[k]) :
        \E x \in Range(MemberDistance(col.groupsSh[k][m], col.offsetss[k])) :
            Cardinality(x.v) # 1

\* C9: the step of the maximum distances drops the Groups with non-identical
\* symbolic offsets, and only those, and collect goes on with the others;
\* a member that is not at a single distance per Dimension from the Basis
\* Alias makes the whole call fail, and no Aliases are returned.
C9_Asymmetry ==
    /\ (pc \notin {"start", "extracted"} /\ col.at # "rotations") =>
         /\ col.groupsMD = SelectSeq(col.groups0, LAMBDA g : ~C9_SymbolicMix(g))
         /\ col.status = "ok" => \A g \in Range(col.groupsSh) : HasEntry(g)
    /\ (pc \notin {"start", "extracted"} /\ col.at \notin {"rotations", "offsets"}) =>
         (C9_NonUniform <=>
            (col.status = "ValueError" /\ col.at = "distances" /\ pc = "raised"
             /\ col.entries = <<>> /\ out.ret = "raised"))

\* A Group is dropped for its symbolic offsets, another one gets its entry
C9_Witness ==
    /\ Collected /\ col.status = "ok"
    /\ \E g \in Range(col.groups0) : C9_SymbolicMix(g)
    /\ col.entries # <<>>

\* The other half of C9: the distances abort the call
C9_WitnessRaise == pc = "raised" /\ col.at = "distances" /\ C9_NonUniform

\* C10 as stated: g.intersection(o).intersection(o) == g.intersection(o) for
\* all IntervalGroups g and o.
C10_Idempotent == sp.phase = "twice" => IGEq(sp.r2, sp.r1)

\* More than one Interval of g is over the same Dimension
C11_Duplicates(g) == \E x, y \in 1..Len(g) : x # y /\ g[x].dim = g[y].dim

\* C11 as stated: indexing by a Dimension fails whenever the group holds two
\* or more Intervals over one Dimension, and returns an Interval only for
\* the groups with one Interval per Dimension.
C11_GetitemWellDefined ==
    ig.phase = "item" =>
      /\ C11_Duplicates(ig.g) => ig.item.status = "ValueError"
      /\ ig.item.status = "ok" => ~C11_Duplicates(ig.g)

\* C12: a.overlap(b) = b.overlap(a) for all a, b over the same Dimension,
\* each an Interval or a NullInterval.
C12_OverlapSymmetric ==
    (ig.phase = "overlap" /\ ig.a.dim = ig.b.dim) => (ig.ab = ig.ba)

\* Two Intervals of different extents that overlap, the first one starting
\* after the second
C12_Witness ==
    /\ ig.phase = "overlap" /\ ig.a.dim = ig.b.dim
    /\ ~ig.a.null /\ ~ig.b.null
    /\ min_extent(ig.a) # min_extent(ig.b)
    /\ ig.a.lower > ig.b.lower
    /\ ig.ab /\ ig.ba

\* collect went past the rotations of the Groups of its bucket
C13_Built == pc \notin {"start", "extracted"} /\ col.mapper # <<>> /\ col.at # "rotations"

\* The shift of the pivot in the r-th entry of a table: the value of the
\* row in the pivot's column, i.e. the lower end of the row plus the column
C13_Shift(rot, r) == rot.m[r].lower + rot.index

\* The accesses of the pivot of g along d
C13_Accesses(g, d) == {x \in Range(PivotEntries(g[1])) : x.d = d}

\* C13: in every table of rotations that collect builds, the first entry
\* has the pivot at its maximum legal decrement (the largest -offset over
\* its accesses) and the last entry at its minimum legal increment (the
\* least halo size - offset), and in every entry the offset of each access
\* of the pivot plus the shift is within [0, halo size of the array].
C13_RotationTable ==
    C13_Built =>
      \A g \in Range(col.groups0) : \A k \in 1..Len(pivot_rotations(g)) :
        LET rot == pivot_rotations(g)[k]
            acc == C13_Accesses(g, rot.d)
            v   == Cardinality(DOMAIN rot.m) - 1
        IN  /\ DOMAIN rot.m = 0..v
            /\ (\A x \in acc : IsNum(x.o)) =>
                  /\ C13_Shift(rot, 0) = MaxOf({0 - x.o.c : x \in acc})
                  /\ C13_Shift(rot, v) = MinOf({SizeHalo(x.f, x.d) - x.o.c : x \in acc})
            /\ \A r \in 0..v : \A x \in acc :
                  IsNum(x.o) =>
                    /\ 0 <= x.o.c + C13_Shift(rot, r)
                    /\ x.o.c + C13_Shift(rot, r) <= SizeHalo(x.f, x.d)

\* A table of three entries with the pivot in its middle column
C13_Witness ==
    /\ C13_Built /\ col.status = "ok"
    /\ \E g \in Range(col.groups0) : \E k \in 1..Len(pivot_rotations(g)) :
          /\ Cardinality(DOMAIN pivot_rotations(g)[k].m) = 3
          /\ pivot_rotations(g)[k].index = 1
          /\ C13_Shift(pivot_rotations(g)[k], 0) < 0
          /\ C13_Shift(pivot_rotations(g)[k], 2) > 0

C15_FirstSeen == {k \in 1..Len(col.mapper) :
                    \A j \in 1..(k - 1) : col.mapper[j].dims # col.mapper[k].dims}

\* The key that was inserted last
C15_Key == col.mapper[MaxOf(C15_FirstSeen)].dims

\* C15: the Groups are filed under the dimension set of their first
\* Candidate, and only the Groups of the key inserted last are processed,
\* in their order; the Candidates of the other keys are in no entry of the
\* Aliases; without any Candidate collect returns empty Aliases.
C15_BucketSelection ==
    pc \notin {"start", "extracted"} =>
      IF analyze(exprs) = <<>>
      THEN col = EmptyCollect
      ELSE /\ \A k \in 1..Len(col.mapper) :
                col.mapper[k].dims = dimensions(col.mapper[k].group[1])
           /\ col.groups0 =
                [k \in 1..Len(SelectSeq(col.mapper, LAMBDA x : x.dims = C15_Key)) |->
                   SelectSeq(col.mapper, LAMBDA x : x.dims = C15_Key)[k].group]
           /\ Range(col.groupsSh) \subseteq Range(col.groupsMD)
           /\ Range(col.groupsMD) \subseteq Range(col.groups0)
           /\ \A e \in 1..Len(col.entries) :
                \E g \in Range(col.groups0) : col.entries[e].aliaseds = GroupRhs(g)
           /\ \A c \in Range(analyze(exprs)) :
                dimensions(c) # C15_Key => EntriesOf(Rhs(c)) = {}

\* Two keys, the one inserted last is not the key of the Group made last,
\* and its Group has an entry in the Aliases
C15_Witness ==
    /\ Collected /\ col.status = "ok" /\ col.entries # <<>>
    /\ Cardinality(C15_FirstSeen) = 2
    /\ col.mapper[Len(col.mapper)].dims # C15_Key

\* All the offsets of the pivot of g are integers
C16_IntegerPivot(g) == \A x \in Range(PivotEntries(g[1])) : IsNum(x.o)

\* C16 as stated: for every Group whose pivot has integer offsets the
\* assertions of Group._pivot_rotations hold along every Dimension, and
\* collect never aborts on the rotations of the Groups of its bucket.
C16_AssertionsHold ==
    pc \notin {"start", "extracted"} =>
      \A g \in Range(col.groups0) :
        C16_IntegerPivot(g) =>
          /\ GroupRotationStatus(g) = "ok"
          /\ col.at # "rotations"

\* The spreads (max - min) of the offsets along d over the accesses of the
\* Groups that survive the step of the maximum distances
C17_Spreads(d) ==
    {IF Comparable(x.v) THEN VMax(x.v) - VMin(x.v) ELSE 0 :
       x \in {y \in UNION {Range(GEntries(g)) : g \in Range(col.groupsMD)} : y.d = d}}

\* C17 as stated: after the step of the maximum distances, MD[d] is the
\* largest spread of the offsets along d over the accesses of the surviving
\* Groups, and a Group dropped in the step contributes to no MD entry.
C17_MDExcludesDropped ==
    (pc \notin {"start", "extracted"} /\ col.mapper # <<>> /\ col.at # "rotations") =>
      \A d \in Dims :
        /\ mdsGet(col.mds, d) = MaxOf(C17_Spreads(d) \cup {0})
        /\ mdsHas(col.mds, d) => C17_Spreads(d) # {}

====
